---- MODULE Spec2Model ----
(***************************************************************************)
(* obs2nlm: turn an Obsidian vault into one NotebookLM source document.    *)
(*                                                                         *)
(* A text is a sequence of fragments.  A fragment is either one whitespace *)
(* character (" ", "\n", "\r") or a run of non-whitespace characters; path *)
(* strings are spelled one character per fragment, so that pathlib's       *)
(* parsing (name, stem, suffix, parts, ordering) can be computed as the    *)
(* library computes it.  The filesystem maps a path string to the raw text *)
(* of the file, or to None.                                                *)
(***************************************************************************)
EXTENDS Integers, Sequences, FiniteSets, TLC

VARIABLES
    args,                  \* the Namespace: vault, source, instructions, additional_instructions
    dirs,                  \* the directories that exist (normalised path strings)
    fs,                    \* the files on disk: path -> None | Some(raw text)
    fs0,                   \* the files on disk when the first run started
    pc,                    \* position in make_source
    run,                   \* which invocation of the tool this is
    vault,                 \* make_source's local `vault`
    source,                \* make_source's local `source`
    preamble,              \* make_source's local `preamble`
    extra_preamble,        \* make_source's local `extra_preamble`
    estimated_word_count,  \* make_source's local `estimated_word_count`
    table_of_content,      \* make_source's local `table_of_content`
    contents,              \* the values `content` took, one per loop iteration
    pending,               \* text written to notebook_source and not yet flushed
    console,               \* the lines printed
    exit_status,           \* None while running, Some(n) once the process ended
    first                  \* None, or what the first invocation produced

vars == <<args, dirs, fs, fs0, pc, run, vault, source, preamble, extra_preamble,
          estimated_word_count, table_of_content, contents, pending, console,
          exit_status, first>>

----------------------------------------------------------------------------
(* Bounds of the model *)

\* How many files exist before the first run.
MaxFiles == 2
\* The write buffer of the output file, in fragments.
BufSize == 16
\* Longest vault reference spelled out in SpecResolve.
MaxNameLen == 4
\* SpecSummary draws estimates from WORD_LIMIT - Span .. WORD_LIMIT + Span.
Span == 60

----------------------------------------------------------------------------
(* Optional values and texts *)

None == <<>>
Some(x) == <<x>>

IsSpace(f) == f \in {" ", "\n", "\r", "\t"}

\* len(text.split()): the number of maximal runs of non-whitespace.
Words(t) ==
    Cardinality({i \in 1..Len(t) : ~IsSpace(t[i]) /\ (i = 1 \/ IsSpace(t[i - 1]))})

RECURSIVE TranslateRange(_, _, _)
\* Text-mode decoding of raw[lo..hi]: the "\n" of a "\r\n" is dropped, and
\* every "\r" becomes "\n".
TranslateRange(raw, lo, hi) ==
    IF lo > hi THEN <<>>
    ELSE IF lo = hi
         THEN IF raw[lo] = "\n" /\ lo > 1 /\ raw[lo - 1] = "\r" THEN <<>>
              ELSE IF raw[lo] = "\r" THEN <<"\n">> ELSE <<raw[lo]>>
         ELSE LET mid == (lo + hi) \div 2
              IN  TranslateRange(raw, lo, mid) \o TranslateRange(raw, mid + 1, hi)

\* Text-mode decoding with newline=None: "\r\n" and a lone "\r" become "\n".
Translate(raw) == TranslateRange(raw, 1, Len(raw))

Range(s) == {s[i] : i \in 1..Len(s)}

----------------------------------------------------------------------------
(* pathlib (PurePosixPath) *)

RECURSIVE SplitOn(_, _)
\* str.split(sep)
SplitOn(t, sep) ==
    IF \A i \in 1..Len(t) : t[i] # sep THEN <<t>>
    ELSE LET i == CHOOSE k \in 1..Len(t) : t[k] = sep /\ \A j \in 1..(k - 1) : t[j] # sep
         IN  <<SubSeq(t, 1, i - 1)>> \o SplitOn(SubSeq(t, i + 1, Len(t)), sep)

IsComponent(c) == c # <<>> /\ c # <<".">>

\* Path(t).parts: empty and "." components are dropped, ".." is kept.
PathParts(t) ==
    LET kept == SelectSeq(SplitOn(t, "/"), IsComponent)
    IN  IF t # <<>> /\ t[1] = "/" THEN <<<<"/">>>> \o kept ELSE kept

RECURSIVE JoinTail(_)
JoinTail(ps) ==
    IF ps = <<>> THEN <<>>
    ELSE IF Len(ps) = 1 THEN ps[1] ELSE ps[1] \o <<"/">> \o JoinTail(Tail(ps))

\* str(Path(parts))
JoinParts(ps) ==
    IF ps = <<>> THEN <<".">>
    ELSE IF ps[1] = <<"/">> THEN <<"/">> \o JoinTail(Tail(ps)) ELSE JoinTail(ps)

\* str(Path(t))
PurePath(t) == JoinParts(PathParts(t))

\* Path(t).name
PathName(t) ==
    LET ps == PathParts(t)
    IN  IF ps = <<>> \/ ps = <<<<"/">>>> THEN <<>> ELSE ps[Len(ps)]

\* name.rfind("."), counted from 1; 0 when there is none
RFindDot(name) ==
    IF \A i \in 1..Len(name) : name[i] # "." THEN 0
    ELSE CHOOSE i \in 1..Len(name) :
             name[i] = "." /\ \A j \in (i + 1)..Len(name) : name[j] # "."

\* Path(t).suffix
PathSuffix(t) ==
    LET name == PathName(t)
        i == RFindDot(name)
    IN  IF 1 < i /\ i < Len(name) THEN SubSeq(name, i, Len(name)) ELSE <<>>

\* Path(t).stem
stem(t) ==
    LET name == PathName(t)
        i == RFindDot(name)
    IN  IF 1 < i /\ i < Len(name) THEN SubSeq(name, 1, i - 1) ELSE name

\* Path(t).with_suffix(suffix): None stands for the ValueError of an empty name.
with_suffix(t, suffix) ==
    LET name == PathName(t)
        old == PathSuffix(t)
        ps == PathParts(t)
        new == SubSeq(name, 1, Len(name) - Len(old)) \o suffix
    IN  IF name = <<>> THEN None
        ELSE Some(JoinParts(SubSeq(ps, 1, Len(ps) - 1) \o <<new>>))

\* a / b
PathJoin(a, b) ==
    IF b # <<>> /\ b[1] = "/" THEN PurePath(b) ELSE PurePath(a \o <<"/">> \o b)

IsPrefix(s, t) == Len(s) <= Len(t) /\ SubSeq(t, 1, Len(s)) = s

\* file.relative_to(root), for a file under root
relative_to(file, root) ==
    LET fp == PathParts(file)
        rp == PathParts(root)
    IN  JoinParts(SubSeq(fp, Len(rp) + 1, Len(fp)))

\* ord(c) of the characters that occur in vault-relative paths
Code(c) ==
    CASE c = "-" -> 45 [] c = "." -> 46 [] c = "/" -> 47
      [] c = "a" -> 97 [] c = "b" -> 98 [] c = "d" -> 100
      [] c = "m" -> 109 [] c = "o" -> 111 [] c = "t" -> 116
      [] c = "n" -> 110 [] c = "u" -> 117 [] c = "v" -> 118 [] c = "x" -> 120

\* In a sequence compared element by element, the first position that differs.
FirstDiff(s, t) ==
    LET n == IF Len(s) < Len(t) THEN Len(s) ELSE Len(t)
    IN  IF \A i \in 1..n : s[i] = t[i] THEN 0
        ELSE CHOOSE i \in 1..n : s[i] # t[i] /\ \A j \in 1..(i - 1) : s[j] = t[j]

\* str.__lt__: code point by code point
StrLess(s, t) ==
    LET i == FirstDiff(s, t)
    IN  IF i = 0 THEN Len(s) < Len(t) ELSE Code(s[i]) < Code(t[i])

\* PurePath.__lt__: the lists of components are compared, each as a string
PathLess(p, q) ==
    LET pp == PathParts(p)
        qq == PathParts(q)
        i == FirstDiff(pp, qq)
    IN  IF i = 0 THEN Len(pp) < Len(qq) ELSE StrLess(pp[i], qq[i])

RECURSIVE Insert(_, _)
Insert(e, s) ==
    IF s = <<>> THEN <<e>>
    ELSE IF PathLess(e, s[1]) THEN <<e>> \o s ELSE <<s[1]>> \o Insert(e, Tail(s))

RECURSIVE InsertionSort(_)
InsertionSort(s) == IF s = <<>> THEN <<>> ELSE Insert(s[1], InsertionSort(Tail(s)))

sorted_unsorted(s) == s

\* sorted(paths): the stable ascending order under PurePath.__lt__
sorted(s) == InsertionSort(s)

----------------------------------------------------------------------------
(* The program's constants *)

\* Path("~/Library/Mobile Documents/iCloud~md~obsidian/Documents").expanduser();
\* "home" stands for the expanded "~".
DEFAULT_VAULT_ROOT ==
    <<"/", "home", "/", "Library", "/", "Mobile Documents", "/",
      "iCloud~md~obsidian", "/", "Documents">>

\* The built-in instructions, cut down to their heading line.
PREAMBLE ==
    <<"#", " ", "AI", " ", "NAVIGATION", " ", "&", " ", "BEHAVIOR", " ", "RULES", "\n">>

WORD_LIMIT == 500000

\* The literals make_source writes
ADDITIONAL_RULES == <<"\n", "\n", "#", " ", "ADDITIONAL", " ", "RULES", "\n", "\n">>
SEPARATOR == <<"\n", "\n", "---", "\n", "\n">>
BeginSource(p) == <<"BEGIN", " ", "SOURCE:", " ">> \o p \o <<"\n", "\n">>
EndSource(p) == <<"\n", "\n", "END", " ", "SOURCE:", " ">> \o p \o <<"\n", "\n">>
TOC_BEGIN ==
    <<"\n", "\n", "BEGIN", " ", "TABLE", " ", "OF", " ", "CONTENT", "\n", "\n">>
TOC_END ==
    <<"\n", "\n", "END", " ", "TABLE", " ", "OF", " ", "CONTENT", "\n", "\n">>
TocLine(entry) == <<"*", " ">> \o entry \o <<"\n">>

----------------------------------------------------------------------------
(* The filesystem *)

is_dir(d, p) == PurePath(p) \in d

is_file(files, p) == p \in DOMAIN files /\ files[p] # None

\* Path.read_text(encoding="utf-8")
read_text(files, p) == Translate(files[p][1])

open_append(files, p) == IF files[p] = None THEN [files EXCEPT ![p] = Some(<<>>)] ELSE files

\* Path.open("w"): the file is created, or truncated if it exists
open_w(files, p) == [files EXCEPT ![p] = Some(<<>>)]

\* The file object notebook_source: what reached the disk, and what is buffered.
\* A write that would overfill the buffer flushes what is pending first; a
\* buffer that is full after the write is flushed at once.
write(f, data) ==
    LET g == IF Len(f.pending) + Len(data) > BufSize
             THEN [disk |-> f.disk \o f.pending, pending |-> data]
             ELSE [disk |-> f.disk, pending |-> f.pending \o data]
    IN  IF Len(g.pending) >= BufSize
        THEN [disk |-> g.disk \o g.pending, pending |-> <<>>]
        ELSE g

IsAbsolute(p) == p # <<>> /\ p[1] = "/"

\* The files vault.rglob("*.md") yields: every file below the vault whose name
\* ends in ".md", in an order the filesystem chooses.
rglob_md(files, root) ==
    {p \in DOMAIN files :
        /\ files[p] # None
        /\ IsAbsolute(p) = IsAbsolute(root)
        /\ IsPrefix(PathParts(root), PathParts(p))
        /\ Len(PathParts(p)) > Len(PathParts(root))
        /\ Len(PathName(p)) >= 3
        /\ SubSeq(PathName(p), Len(PathName(p)) - 2, Len(PathName(p))) = <<".", "m", "d">>}

----------------------------------------------------------------------------
(* The functions of obs2nlm.py *)

resolve_vault_unchecked(d, v) == Some(v)

\* resolve_vault; None stands for exit(1)
resolve_vault(d, v) ==
    IF is_dir(d, v) THEN Some(v)
    ELSE IF is_dir(d, PathJoin(DEFAULT_VAULT_ROOT, v))
         THEN Some(PathJoin(DEFAULT_VAULT_ROOT, v))
         ELSE None

resolve_source_default_only(a) == with_suffix(stem(a.vault), <<".", "m", "d">>)

\* resolve_source; None stands for the ValueError with_suffix raises
resolve_source(a) ==
    IF a.source # None THEN a.source
    ELSE with_suffix(stem(a.vault), <<".", "m", "d">>)

get_instructions_literal(files, instructions) == instructions

get_instructions(files, instructions) ==
    IF instructions # None /\ is_file(files, PurePath(instructions[1]))
    THEN Some(read_text(files, PurePath(instructions[1])))
    ELSE instructions

\* x or default, for an optional string x
Or(x, default) == IF x = None \/ x[1] = <<>> THEN default ELSE x[1]

count_separately(p, e) == Words(p) + Words(e)

\* line 113
initial_count(p, e) == Words(p \o e)

header_always(p, e) == p \o ADDITIONAL_RULES \o e \o SEPARATOR

\* lines 115-118: what is written before the notes
header(p, e) ==
    p \o (IF e # <<>> THEN ADDITIONAL_RULES \o e ELSE <<>>) \o SEPARATOR

summary_at_limit(n) == IF n >= WORD_LIMIT THEN "Truncate" ELSE "Percent"

\* lines 135-138: which of the two closing lines is printed
summary(n) == IF n > WORD_LIMIT THEN "Truncate" ELSE "Percent"

\* line 133
overhead(toc) == Len(toc) * 7

----------------------------------------------------------------------------
(* The world the runs start from *)

\* Vault references: a directory of the working directory, the name of a vault
\* under DEFAULT_VAULT_ROOT, a name found nowhere, the working directory itself.
P_v == <<"v">>
P_n == <<"n">>
P_m == <<"m">>
P_dot == <<".">>

F_a == <<"v", "/", "a", ".", "m", "d">>
F_ax == <<"v", "/", "a", "/", "x", ".", "m", "d">>
F_out == <<"v", "/", "o", "u", "t", ".", "m", "d">>
F_ins == <<"i", "n", "s", ".", "t", "x", "t">>
F_vmd == <<"v", ".", "m", "d">>
F_nmd == <<"n", ".", "m", "d">>
F_mmd == <<"m", ".", "m", "d">>
F_nb == DEFAULT_VAULT_ROOT \o <<"/", "n", "/", "b", ".", "m", "d">>

FilePaths == {F_a, F_ax, F_out, F_ins, F_vmd, F_nmd, F_mmd, F_nb}

Directories ==
    {P_dot, P_v, <<"v", "/", "a">>, DEFAULT_VAULT_ROOT, PathJoin(DEFAULT_VAULT_ROOT, P_n)}

HelloWorld == <<"Hello", " ", "world">>
CrLf == <<"w", "\r", "\n", "w">>
BeBrief == <<"Be", " ", "brief">>
Old == <<"old">>

\* The raw texts a file may hold before the first run.
FileTexts(p) ==
    CASE p = F_a -> {HelloWorld, CrLf}
      [] p = F_ax -> {HelloWorld}
      [] p = F_ins -> {<<>>, <<"Be", "\r", "\n", "brief">>}
      [] p = F_vmd -> {Old}
      [] OTHER -> {}

AllTexts == UNION {FileTexts(p) : p \in FilePaths}

InitialFilesystems ==
    UNION {{[p \in FilePaths |-> IF p \in present THEN Some(t[p]) ELSE None] :
               t \in {u \in [present -> AllTexts] : \A p \in present : u[p] \in FileTexts(p)}} :
           present \in {x \in SUBSET FilePaths : Cardinality(x) <= MaxFiles}}

Arguments ==
    [vault : {P_v, P_n, P_m, P_dot},
     source : {None, Some(F_out), Some(F_ins)},
     instructions : {None, Some(F_ins), Some(BeBrief)},
     additional_instructions : {None, Some(F_ins), Some(<<"x">>)}]

\* make_source's locals before line 106
Fresh ==
    /\ vault = <<>>
    /\ source = <<>>
    /\ preamble = <<>>
    /\ extra_preamble = <<>>
    /\ estimated_word_count = 0
    /\ table_of_content = <<>>
    /\ contents = <<>>
    /\ pending = <<>>
    /\ console = <<>>
    /\ exit_status = None

Init ==
    /\ args \in Arguments
    /\ dirs = Directories
    /\ fs \in InitialFilesystems
    /\ fs0 = fs
    /\ pc = "start"
    /\ run = 1
    /\ first = None
    /\ Fresh

----------------------------------------------------------------------------
(* make_source, statement by statement *)

\* The document: what is on disk at the output path, then what is buffered.
Doc == fs[source][1] \o pending

\* line 106
ResolveVault ==
    /\ pc = "start"
    /\ LET r == resolve_vault(dirs, args.vault)
       IN  IF r = None
           THEN /\ console' = Append(console, "Can't find an Obsidian vault")
                /\ exit_status' = Some(1)
                /\ pc' = "exit"
                /\ UNCHANGED vault
           ELSE /\ vault' = r[1]
                /\ pc' = "resolved"
                /\ UNCHANGED <<console, exit_status>>
    /\ UNCHANGED <<args, dirs, fs, fs0, run, source, preamble, extra_preamble,
                   estimated_word_count, table_of_content, contents, pending, first>>

\* lines 107-109
ResolveSource ==
    /\ pc = "resolved"
    /\ LET r == resolve_source(args)
       IN  IF r = None
           THEN /\ console' = Append(console, "ValueError")
                /\ exit_status' = Some(1)
                /\ pc' = "error"
                /\ UNCHANGED source
           ELSE /\ source' = r[1]
                /\ console' = Append(console, "Converting")
                /\ pc' = "prepare"
                /\ UNCHANGED exit_status
    /\ UNCHANGED <<args, dirs, fs, fs0, run, vault, preamble, extra_preamble,
                   estimated_word_count, table_of_content, contents, pending, first>>

\* lines 110-113
Prepare ==
    /\ pc = "prepare"
    /\ LET p == Or(get_instructions(fs, args.instructions), PREAMBLE)
           e == Or(get_instructions(fs, args.additional_instructions), <<>>)
       IN  /\ preamble' = p
           /\ extra_preamble' = e
           /\ estimated_word_count' = initial_count(p, e)
    /\ table_of_content' = <<>>
    /\ pc' = "open"
    /\ UNCHANGED <<args, dirs, fs, fs0, run, vault, source, contents, pending,
                   console, exit_status, first>>

\* line 114
OpenSource ==
    /\ pc = "open"
    /\ fs' = open_w(fs, source)
    /\ pending' = <<>>
    /\ pc' = "header"
    /\ UNCHANGED <<args, dirs, fs0, run, vault, source, preamble, extra_preamble,
                   estimated_word_count, table_of_content, contents, console,
                   exit_status, first>>

\* lines 115-118
WriteHeader ==
    /\ pc = "header"
    /\ LET f == write([disk |-> fs[source][1], pending |-> pending],
                      header(preamble, extra_preamble))
       IN  /\ fs' = [fs EXCEPT ![source] = Some(f.disk)]
           /\ pending' = f.pending
    /\ pc' = "walk"
    /\ UNCHANGED <<args, dirs, fs0, run, vault, source, preamble, extra_preamble,
                   estimated_word_count, table_of_content, contents, console,
                   exit_status, first>>

\* The files rglob has yet to yield.
Unvisited ==
    {p \in rglob_md(fs, vault) : relative_to(p, vault) \notin Range(table_of_content)}

\* lines 119-126, one iteration
WriteNote ==
    /\ pc = "walk"
    /\ \E vault_file \in Unvisited :
        LET rel == relative_to(vault_file, vault)
            f1 == write([disk |-> fs[source][1], pending |-> pending], BeginSource(rel))
            content == read_text([fs EXCEPT ![source] = Some(f1.disk)], vault_file)
            f2 == write(f1, content)
            f3 == write(f2, EndSource(rel))
        IN  /\ table_of_content' = Append(table_of_content, rel)
            /\ contents' = Append(contents, content)
            /\ estimated_word_count' = estimated_word_count + Words(content)
            /\ fs' = [fs EXCEPT ![source] = Some(f3.disk)]
            /\ pending' = f3.pending
    /\ UNCHANGED <<args, dirs, fs0, pc, run, vault, source, preamble, extra_preamble,
                   console, exit_status, first>>

RECURSIVE TocLines(_)
TocLines(entries) ==
    IF entries = <<>> THEN <<>> ELSE TocLine(entries[1]) \o TocLines(Tail(entries))

\* lines 127-130, and the close that ends the with block
WriteToc ==
    /\ pc = "walk"
    /\ Unvisited = {}
    /\ LET f1 == write([disk |-> fs[source][1], pending |-> pending], TOC_BEGIN)
           f2 == write(f1, TocLines(sorted(table_of_content)))
           f3 == write(f2, TOC_END)
       IN  fs' = [fs EXCEPT ![source] = Some(f3.disk \o f3.pending)]
    /\ pending' = <<>>
    /\ pc' = "count"
    /\ UNCHANGED <<args, dirs, fs0, run, vault, source, preamble, extra_preamble,
                   estimated_word_count, table_of_content, contents, console,
                   exit_status, first>>

\* lines 133-134
Count ==
    /\ pc = "count"
    /\ estimated_word_count' = estimated_word_count + overhead(table_of_content)
    /\ console' = Append(console, "Estimated word count")
    /\ pc' = "summary"
    /\ UNCHANGED <<args, dirs, fs, fs0, run, vault, source, preamble, extra_preamble,
                   table_of_content, contents, pending, exit_status, first>>

\* lines 135-138, and the return to main
Summary ==
    /\ pc = "summary"
    /\ console' = Append(console, summary(estimated_word_count))
    /\ exit_status' = Some(0)
    /\ pc' = "done"
    /\ UNCHANGED <<args, dirs, fs, fs0, run, vault, source, preamble, extra_preamble,
                   estimated_word_count, table_of_content, contents, pending, first>>

\* The tool is run a second time with the same arguments; nothing else touched
\* the disk.
Rerun ==
    /\ pc = "done"
    /\ run = 1
    /\ first' = Some([doc |-> Doc, order |-> table_of_content])
    /\ run' = run + 1
    /\ pc' = "start"
    /\ vault' = <<>>
    /\ source' = <<>>
    /\ preamble' = <<>>
    /\ extra_preamble' = <<>>
    /\ estimated_word_count' = 0
    /\ table_of_content' = <<>>
    /\ contents' = <<>>
    /\ pending' = <<>>
    /\ console' = <<>>
    /\ exit_status' = None
    /\ UNCHANGED <<args, dirs, fs, fs0>>

Next ==
    \/ ResolveVault
    \/ ResolveSource
    \/ Prepare
    \/ OpenSource
    \/ WriteHeader
    \/ WriteNote
    \/ WriteToc
    \/ Count
    \/ Summary
    \/ Rerun

Spec == Init /\ [][Next]_vars

----------------------------------------------------------------------------
(* resolve_vault and resolve_source on every short vault reference *)

NameAlphabet == {"v", ".", "/"}

VaultReferences ==
    UNION {[1..n -> NameAlphabet] : n \in 1..MaxNameLen}

\* The reference names a directory that exists; nothing else is on disk.
InitResolve ==
    /\ args \in [vault : VaultReferences,
                 source : {None, Some(F_out)},
                 instructions : {None},
                 additional_instructions : {None}]
    /\ dirs = {PurePath(args.vault)}
    /\ fs = [p \in FilePaths |-> None]
    /\ fs0 = fs
    /\ pc = "start"
    /\ run = 1
    /\ first = None
    /\ Fresh

NextResolve ==
    \/ ResolveVault
    \/ ResolveSource

SpecResolve == InitResolve /\ [][NextResolve]_vars

----------------------------------------------------------------------------
(* The closing lines of make_source on estimates around the limit *)

InitSummary ==
    /\ args = [vault |-> P_v, source |-> None, instructions |-> None,
               additional_instructions |-> None]
    /\ dirs = Directories
    /\ fs = [p \in FilePaths |-> IF p = F_vmd THEN Some(<<>>) ELSE None]
    /\ fs0 = fs
    /\ pc = "count"
    /\ run = 1
    /\ first = None
    /\ vault = P_v
    /\ source = F_vmd
    /\ preamble = PREAMBLE
    /\ extra_preamble = <<>>
    /\ estimated_word_count \in (WORD_LIMIT - Span)..(WORD_LIMIT + Span)
    /\ table_of_content \in {<<>>, <<relative_to(F_a, P_v)>>}
    /\ contents = table_of_content
    /\ pending = <<>>
    /\ console = <<"Converting">>
    /\ exit_status = None

NextSummary ==
    \/ Count
    \/ Summary

SpecSummary == InitSummary /\ [][NextSummary]_vars

----------------------------------------------------------------------------
(* Reading the document back *)

\* The literal lit stands in d at position i.
IsAt(d, i, lit) == i >= 1 /\ i + Len(lit) - 1 <= Len(d) /\ SubSeq(d, i, i + Len(lit) - 1) = lit

Occurrences(d, lit) == {i \in 1..Len(d) : IsAt(d, i, lit)}

Max(S) == CHOOSE x \in S : \A y \in S : y <= x

DropBullet(line) == SubSeq(line, 3, Len(line))

NonEmpty(line) == line # <<>>

RECURSIVE Map(_, _)
Map(Op(_), s) == IF s = <<>> THEN <<>> ELSE <<Op(s[1])>> \o Map(Op, Tail(s))

\* The entries of the last table of contents in d, in the order they are listed.
TocEntries(d) ==
    LET from == Max(Occurrences(d, TOC_BEGIN)) + Len(TOC_BEGIN)
        body == SubSeq(d, from, Len(d) - Len(TOC_END))
    IN  Map(DropBullet, SelectSeq(SplitOn(body, "\n"), NonEmpty))

Written == pc \in {"walk", "count", "summary", "done"}
Closed == pc \in {"count", "summary", "done"}

\* Whether p lies in the tree below root.
InTree(p, root) ==
    /\ IsAbsolute(p) = IsAbsolute(root)
    /\ IsPrefix(PathParts(root), PathParts(p))

RECURSIVE SumWords(_)
SumWords(texts) == IF texts = <<>> THEN 0 ELSE Words(texts[1]) + SumWords(Tail(texts))

RECURSIVE SumFileWords(_, _)
SumFileWords(files, S) ==
    IF S = {} THEN 0
    ELSE LET p == CHOOSE x \in S : TRUE
         IN  Words(files[p][1]) + SumFileWords(files, S \ {p})

----------------------------------------------------------------------------
(* C1 *)

NotFound ==
    /\ ~is_dir(dirs, args.vault)
    /\ ~is_dir(dirs, PathJoin(DEFAULT_VAULT_ROOT, args.vault))

\* C1: when the vault reference is a directory neither as given nor under
\* DEFAULT_VAULT_ROOT, the run never gets past resolve_vault: it prints the
\* "Can't find an Obsidian vault" message, ends with status 1, and every file,
\* the output path included, is as it was, whatever the other arguments are.
C1_NoVaultNoOutput ==
    NotFound =>
        /\ pc \in {"start", "exit"}
        /\ fs = fs0
        /\ pc = "exit" =>
            /\ exit_status = Some(1)
            /\ console = <<"Can't find an Obsidian vault">>

\* A vault that is not found, with --source naming a file that exists.
C1_Witness ==
    /\ NotFound
    /\ pc = "exit"
    /\ args.source = Some(F_ins)
    /\ args.instructions = Some(F_ins)
    /\ fs[F_ins] # None

----------------------------------------------------------------------------
(* C2 *)

SortedBy(Less(_, _), s) == \A i, j \in 1..Len(s) : i < j => Less(s[i], s[j])

SameEntries(s, t) == Len(s) = Len(t) /\ Range(s) = Range(t)

\* C2 as stated: the table of contents lists the notes' relative paths in
\* the order of their path strings compared character by character, the "/"
\* included.
C2_StringOrder ==
    Closed =>
        /\ SameEntries(TocEntries(Doc), table_of_content)
        /\ SortedBy(StrLess, TocEntries(Doc))

\* C2 as amended: the table of contents lists the notes' relative paths in
\* the order of their lists of path components, each component compared
\* character by character, whatever order the walk found them in.
C2_ComponentOrder ==
    Closed =>
        /\ SameEntries(TocEntries(Doc), table_of_content)
        /\ SortedBy(PathLess, TocEntries(Doc))

\* Two notes found in descending order, listed in ascending order.
C2_Witness ==
    /\ pc = "done"
    /\ table_of_content = <<relative_to(F_a, P_v), relative_to(F_ax, P_v)>>
    /\ TocEntries(Doc) = <<relative_to(F_ax, P_v), relative_to(F_a, P_v)>>

----------------------------------------------------------------------------
(* C3 *)

InstructionsFile == PurePath(args.instructions[1])

\* C3 as stated: the preamble is the named file's text (as read_text decodes
\* it), whatever it is, the empty text included; the literal string when no
\* file is named; the built-in PREAMBLE only when --instructions is not
\* supplied.  The document starts with the preamble.
C3_FileVerbatim ==
    (pc = "open" =>
        preamble = IF args.instructions = None THEN PREAMBLE
                   ELSE IF is_file(fs, InstructionsFile)
                        THEN Translate(fs[InstructionsFile][1])
                   ELSE args.instructions[1])
    /\ (Written => IsPrefix(preamble, Doc))

\* C3 as amended: the preamble is the named file's text (as read_text decodes
\* it: "\r\n" and "\r" become "\n"), or the literal string when no file is
\* named, provided that text is not empty; the built-in PREAMBLE is used when
\* --instructions is not supplied or that text is empty.  The document starts
\* with the preamble.
C3_DecodedOrBuiltin ==
    (pc = "open" =>
        LET text == IF args.instructions = None THEN <<>>
                    ELSE IF is_file(fs, InstructionsFile)
                         THEN Translate(fs[InstructionsFile][1])
                         ELSE args.instructions[1]
        IN  preamble = IF text = <<>> THEN PREAMBLE ELSE text)
    /\ (Written => IsPrefix(preamble, Doc))

\* --instructions names a file that is not empty, and its text opens the document.
C3_Witness ==
    /\ pc = "done"
    /\ run = 1
    /\ args.instructions = Some(F_ins)
    /\ source # F_ins
    /\ fs[F_ins] = Some(<<"Be", "\r", "\n", "brief">>)
    /\ IsPrefix(<<"Be", "\n", "brief", "\n", "\n">>, Doc)

----------------------------------------------------------------------------
(* C4 *)

BEGIN_SOURCE == <<"BEGIN", " ", "SOURCE:", " ">>
END_SOURCE == <<"END", " ", "SOURCE:", " ">>

\* C4: the finished document holds one BEGIN SOURCE / END SOURCE pair per
\* note the vault held, none for anything else, and between the markers of a
\* note's pair stands that note's original text (as read_text decodes it).
C4_OnePairPerNote ==
    (pc = "done" /\ run = 1) =>
        LET notes == rglob_md(fs0, vault)
        IN  /\ Cardinality(Occurrences(Doc, BEGIN_SOURCE)) = Cardinality(notes)
            /\ Cardinality(Occurrences(Doc, END_SOURCE)) = Cardinality(notes)
            /\ \A p \in notes :
                   LET rel == relative_to(p, vault)
                   IN  \E i \in 1..Len(Doc) :
                           /\ Occurrences(Doc, BeginSource(rel)) = {i}
                           /\ IsAt(Doc, i + Len(BeginSource(rel)),
                                   Translate(fs0[p][1]) \o EndSource(rel))

----------------------------------------------------------------------------
(* C5 *)

\* C5 as stated: no file in the vault's tree is created, removed or changed
\* by a run, wherever the output path lies.
C5_VaultUntouched ==
    pc \notin {"start", "exit"} =>
        \A p \in FilePaths : InTree(p, vault) => fs[p] = fs0[p]

\* C5 as amended: a run creates or changes no file other than its output
\* path, which is --source when supplied and otherwise a file directly in the
\* working directory; so the vault is as it was whenever the output path lies
\* outside the vault's tree.
C5_OnlyOutputChanges ==
    \A p \in FilePaths :
        fs[p] # fs0[p] =>
            IF args.source # None THEN p = args.source[1]
            ELSE ~IsAbsolute(p) /\ Len(PathParts(p)) = 1

\* A run that wrote its output into the vault and left the note there alone.
C5_Witness ==
    /\ pc = "done"
    /\ vault = P_v
    /\ source = F_out
    /\ fs0[F_a] # None
    /\ fs[F_a] = fs0[F_a]
    /\ fs[F_out] # fs0[F_out]

----------------------------------------------------------------------------
(* C6 *)

SecondRunDone == pc = "done" /\ run >= 2 /\ first[1].order = table_of_content

NamesOutput(instructions) ==
    instructions # None /\ PurePath(instructions[1]) = source

\* C6 as stated: a second run with the same arguments, on a disk nothing else
\* touched, that walks the vault in the same order leaves the same document,
\* whatever the output path.
C6_SameDocument ==
    SecondRunDone => Doc = first[1].doc

\* C6 as amended: the same, provided neither --instructions nor
\* --additional-instructions names the output path.
C6_SameDocumentUnlessRead ==
    (/\ SecondRunDone
     /\ ~NamesOutput(args.instructions)
     /\ ~NamesOutput(args.additional_instructions)) => Doc = first[1].doc

\* A second run with an instructions file, whose output existed from the
\* first run and lies in the vault, so that the walk finds it beside the note.
C6_Witness ==
    /\ SecondRunDone
    /\ source = F_out
    /\ args.instructions = Some(F_ins)
    /\ fs[F_ins] # None
    /\ Len(table_of_content) = 2
    /\ Doc = first[1].doc

----------------------------------------------------------------------------
(* C7 *)

\* C7: resolve_source returns --source when supplied, and otherwise always
\* returns the final component of the vault reference with ".md" added.
C7_FinalComponentPlusMd ==
    pc \in {"prepare", "error"} =>
        /\ pc = "prepare"
        /\ source = IF args.source # None THEN args.source[1]
                    ELSE PathName(args.vault) \o <<".", "m", "d">>

----------------------------------------------------------------------------
(* C8 *)

\* C8: the estimate printed is the word count of preamble and supplement
\* joined, plus the word counts of the note bodies written, plus 7 per note;
\* when the output lies outside the vault the bodies are the notes on disk.
C8_Estimate ==
    pc \in {"summary", "done"} =>
        /\ Len(contents) = Len(table_of_content)
        /\ estimated_word_count =
               Words(preamble \o extra_preamble) + SumWords(contents)
                   + 7 * Len(table_of_content)
        /\ ~InTree(source, vault) =>
               estimated_word_count =
                   Words(preamble \o extra_preamble)
                       + SumFileWords(fs, rglob_md(fs, vault))
                       + 7 * Cardinality(rglob_md(fs, vault))

\* The single note "Hello world" under the built-in instructions, and a run
\* whose preamble and supplement join into one word.
C8_Witness ==
    /\ pc = "done"
    /\ args.instructions = None
    /\ args.additional_instructions = None
    /\ rglob_md(fs0, vault) = {F_a}
    /\ fs0[F_a] = Some(HelloWorld)
    /\ estimated_word_count = Words(PREAMBLE) + 2 + 7

----------------------------------------------------------------------------
(* C9 *)

\* C9: after the preamble the document continues with the ADDITIONAL RULES
\* heading, the supplement and the separator when the effective supplement
\* is not empty, and with the separator directly when it is empty; without
\* --additional-instructions the supplement is empty.
C9_HeadingIffSupplement ==
    Written =>
        /\ IsPrefix(preamble, Doc)
        /\ IF extra_preamble # <<>>
           THEN IsAt(Doc, Len(preamble) + 1,
                     ADDITIONAL_RULES \o extra_preamble \o SEPARATOR)
           ELSE /\ IsAt(Doc, Len(preamble) + 1, SEPARATOR)
                /\ ~IsAt(Doc, Len(preamble) + 1, ADDITIONAL_RULES)
        /\ args.additional_instructions = None => extra_preamble = <<>>

\* A literal supplement under its heading.
C9_Witness ==
    /\ pc = "done"
    /\ args.additional_instructions = Some(<<"x">>)
    /\ args.instructions = None
    /\ IsAt(Doc, Len(PREAMBLE) + 1, ADDITIONAL_RULES \o <<"x">> \o SEPARATOR)

----------------------------------------------------------------------------
(* C10 *)

SummaryLines == SelectSeq(console, LAMBDA line : line \in {"Truncate", "Percent"})

\* C10: once the run is done exactly one closing line has been printed: the
\* truncation warning when the estimate is above 500,000, the percentage
\* when it is at or below; before that neither has been printed.
C10_OneSummaryLine ==
    /\ pc = "done" =>
           SummaryLines = <<IF estimated_word_count > 500000 THEN "Truncate" ELSE "Percent">>
    /\ pc # "done" => SummaryLines = <<>>

\* An estimate of exactly the limit gets the percentage line.
C10_Witness ==
    /\ pc = "done"
    /\ estimated_word_count = WORD_LIMIT
    /\ console[Len(console)] = "Percent"

====
